---- MODULE Spec2Model ----
(***************************************************************************)
(* Model of region_analysis/RepeatAnalyzer.cpp (ExpansionHunter).          *)
(*                                                                         *)
(* A RepeatAnalyzer accumulates evidence about one tandem-repeat locus     *)
(* from pairs of mate alignments (processMates) and turns it into          *)
(* RepeatFindings (analyze).                                               *)
(*                                                                         *)
(* A graph alignment is abstracted to the attributes the analyzer's        *)
(* collaborators compute from it:                                          *)
(*   passes     checkIfPassesAlignmentFilters(alignment)                   *)
(*   goodLeft   checkIfUpstreamAlignmentIsGood(repeatNodeId, alignment)    *)
(*   goodRight  checkIfDownstreamAlignmentIsGood(repeatNodeId, alignment)  *)
(*   type       alignmentClassifier_.Classify(alignment)                   *)
(*   units      countFullOverlaps(repeatNodeId, alignment)                 *)
(*   flank      the breakpoints alignmentStatsCalculator_ sees it span     *)
(*                                                                         *)
(* A CountTable is a function from a finite set of sizes to counts, as the *)
(* std::map it wraps.                                                      *)
(***************************************************************************)
EXTENDS Integers, Sequences, FiniteSets, TLC

VARIABLES
    analyzer,         \* the RepeatAnalyzer's members (see Constructed)
    findings,         \* the RepeatFindings returned by the last analyze()
    accumulated,      \* history: the members as the processMates calls left them
    pairsProcessed,   \* history: number of processMates calls
    confidentSeen,    \* history: confident alignments seen, by type
    insidePairsSeen,  \* history: pairs whose two mates were both kInsideRepeat
    fn                \* a function evaluated on its own: its inputs and result

vars == <<analyzer, findings, accumulated, pairsProcessed, confidentSeen, insidePairsSeen, fn>>

----------------------------------------------------------------------------
(* Bounds of the model *)

\* read pairs submitted to one analyzer
MaxPairs == 2
\* largest number of repeat units an alignment overlaps
MaxUnits == 2
\* largest mean read length of a LocusStats
MaxReadLength == 3
\* the locus's repeat unit length (repeatUnit_.length())
RepeatUnitLength == 2
\* genotyperParams_.minLocusCoverage
MinLocusCoverage == 1
\* genotyperParams_.minBreakpointSpanningReads
MinBreakpointSpanningReads == 3
\* largest size and count of the tables given to generateCandidateAlleleSizes
MaxSize == 2
MaxCount == 1

----------------------------------------------------------------------------
(* Enumerations *)

kSpansRepeat == "kSpansRepeat"
kFlanksRepeat == "kFlanksRepeat"
kInsideRepeat == "kInsideRepeat"
kOther == "kOther"
AlignmentType == {kSpansRepeat, kFlanksRepeat, kInsideRepeat, kOther}
CountedTypes == {kSpansRepeat, kFlanksRepeat, kInsideRepeat}

kOne == "kOne"
kTwo == "kTwo"
AlleleCount == {kOne, kTwo}

kLowDepth == "kLowDepth"

kNeither == "kNeither"
kLeft == "kLeft"
kRight == "kRight"
kBoth == "kBoth"

----------------------------------------------------------------------------
(* CountTable *)

EmptyTable == [e \in {} |-> 0]

countOf(table, element) == IF element \in DOMAIN table THEN table[element] ELSE 0

setCountOf(table, element, count) ==
    [e \in DOMAIN table \cup {element} |-> IF e = element THEN count ELSE table[e]]

incrementCountOf(table, element) == setCountOf(table, element, countOf(table, element) + 1)

RECURSIVE SumOver(_, _)
SumOver(table, elements) ==
    IF elements = {} THEN 0
    ELSE LET e == CHOOSE x \in elements : TRUE
         IN table[e] + SumOver(table, elements \ {e})

\* total number of observations of a table
totalCount(table) == SumOver(table, DOMAIN table)

NonzeroElements(table) == {e \in DOMAIN table : table[e] # 0}

RECURSIVE SortedSeq(_)
SortedSeq(S) ==
    IF S = {} THEN <<>>
    ELSE LET m == CHOOSE x \in S : \A y \in S : x <= y
         IN <<m>> \o SortedSeq(S \ {m})

\* the elements with a non-zero count, in the map's (ascending) order
getElementsWithNonzeroCounts(table) == SortedSeq(NonzeroElements(table))

\* counts of the elements at or above upperBound are merged into upperBound
collapseTopElements(table, upperBound) ==
    LET top == {e \in DOMAIN table : e >= upperBound}
        low == DOMAIN table \ top
    IN [e \in low \cup (IF top = {} THEN {} ELSE {upperBound}) |->
            IF e \in low THEN table[e] ELSE SumOver(table, top)]

----------------------------------------------------------------------------
(* Alignments *)

AlignmentAttributes ==
    [passes : BOOLEAN, goodLeft : BOOLEAN, goodRight : BOOLEAN,
     type : AlignmentType, units : 0..MaxUnits, flank : {kNeither, kLeft, kRight, kBoth}]

\* RepeatAlignmentStats(alignment, alignmentType, numRepeatUnitsOverlapped)
classifyReadAlignment(alignment) ==
    [canonicalAlignmentType |-> alignment.type, numRepeatUnitsSpanned |-> alignment.units]

\* a filter that asks one good flank of a spanning alignment too
checkIfAlignmentIsConfident_AnyFlankForSpans(alignment, alignmentStats) ==
    IF ~alignment.passes THEN FALSE
    ELSE IF alignmentStats.canonicalAlignmentType \in {kFlanksRepeat, kSpansRepeat}
            /\ ~alignment.goodLeft /\ ~alignment.goodRight
    THEN FALSE
    ELSE TRUE

checkIfAlignmentIsConfident(alignment, alignmentStats) ==
    IF ~alignment.passes THEN FALSE
    ELSE LET doesReadAlignWellOverLeftFlank == alignment.goodLeft
             doesReadAlignWellOverRightFlank == alignment.goodRight
         IN IF alignmentStats.canonicalAlignmentType = kFlanksRepeat
               /\ ~doesReadAlignWellOverLeftFlank /\ ~doesReadAlignWellOverRightFlank
            THEN FALSE
            ELSE IF alignmentStats.canonicalAlignmentType = kSpansRepeat
                    /\ (~doesReadAlignWellOverLeftFlank \/ ~doesReadAlignWellOverRightFlank)
            THEN FALSE
            ELSE TRUE

\* The alignments submitted to the analyzer.  The flank checks are not
\* evaluated on an alignment that fails the generic filter, and the repeat
\* units of an alignment are read only when it is counted (it is confident and
\* its type has a table): an attribute that is not read is represented by one
\* value.  An alignment spans the breakpoints its type says it touches (a
\* spanning alignment both, a flanking alignment one, an in-repeat alignment
\* none), and aligns well only over a flank it touches.
Alignments ==
    {a \in AlignmentAttributes :
        /\ (~a.passes => ~a.goodLeft /\ ~a.goodRight)
        /\ (a.type = kOther \/ ~checkIfAlignmentIsConfident(a, classifyReadAlignment(a))
                => a.units = 0)
        /\ (a.type = kSpansRepeat => a.flank = kBoth)
        /\ (a.type = kFlanksRepeat => a.flank \in {kLeft, kRight})
        /\ (a.type \in {kInsideRepeat, kOther} => a.flank = kNeither)
        /\ (a.goodLeft => a.flank \in {kLeft, kBoth})
        /\ (a.goodRight => a.flank \in {kRight, kBoth})}

\* GraphVariantAlignmentStatsCalculator::inspect: counts the alignment at each
\* breakpoint it spans
inspect(calculator, alignment) ==
    [left  |-> calculator.left + (IF alignment.flank \in {kLeft, kBoth} THEN 1 ELSE 0),
     right |-> calculator.right + (IF alignment.flank \in {kRight, kBoth} THEN 1 ELSE 0)]

----------------------------------------------------------------------------
(* Accumulation *)

\* a summary in which a spanning read resets the flanking table
summarizeAlignmentsToReadCounts_ClearsFlanking(acc, repeatAlignmentStats) ==
    LET type == repeatAlignmentStats.canonicalAlignmentType
        n == repeatAlignmentStats.numRepeatUnitsSpanned
    IN CASE type = kSpansRepeat ->
              [acc EXCEPT !.countsOfSpanningReads_ = incrementCountOf(@, n), !.countsOfFlankingReads_ = EmptyTable]
         [] type = kFlanksRepeat -> [acc EXCEPT !.countsOfFlankingReads_ = incrementCountOf(@, n)]
         [] type = kInsideRepeat -> [acc EXCEPT !.countsOfInrepeatReads_ = incrementCountOf(@, n)]
         [] OTHER -> acc

\* a summary that counts flanking reads in the spanning table
summarizeAlignmentsToReadCounts_FlanksAsSpans(acc, repeatAlignmentStats) ==
    LET type == repeatAlignmentStats.canonicalAlignmentType
        n == repeatAlignmentStats.numRepeatUnitsSpanned
    IN CASE type \in {kSpansRepeat, kFlanksRepeat} ->
              [acc EXCEPT !.countsOfSpanningReads_ = incrementCountOf(@, n)]
         [] type = kInsideRepeat -> [acc EXCEPT !.countsOfInrepeatReads_ = incrementCountOf(@, n)]
         [] OTHER -> acc

summarizeAlignmentsToReadCounts(acc, repeatAlignmentStats) ==
    LET type == repeatAlignmentStats.canonicalAlignmentType
        n == repeatAlignmentStats.numRepeatUnitsSpanned
    IN CASE type = kSpansRepeat -> [acc EXCEPT !.countsOfSpanningReads_ = incrementCountOf(@, n)]
         [] type = kFlanksRepeat -> [acc EXCEPT !.countsOfFlankingReads_ = incrementCountOf(@, n)]
         [] type = kInsideRepeat -> [acc EXCEPT !.countsOfInrepeatReads_ = incrementCountOf(@, n)]
         [] OTHER -> acc

\* a processMates that counts confident in-repeat pairs itself
processMatesOn_CountsInrepeatPairs(acc, read, mate) ==
    LET readAlignmentStats == classifyReadAlignment(read)
        mateAlignmentStats == classifyReadAlignment(mate)
        isReadAlignmentConfident == checkIfAlignmentIsConfident(read, readAlignmentStats)
        isMateAlignmentConfident == checkIfAlignmentIsConfident(mate, mateAlignmentStats)
        afterRead ==
            IF isReadAlignmentConfident
            THEN summarizeAlignmentsToReadCounts(
                     [acc EXCEPT !.alignmentStatsCalculator_ = inspect(@, read)], readAlignmentStats)
            ELSE acc
        afterMate ==
            IF isMateAlignmentConfident
            THEN summarizeAlignmentsToReadCounts(
                     [afterRead EXCEPT !.alignmentStatsCalculator_ = inspect(@, mate)], mateAlignmentStats)
            ELSE afterRead
    IN IF /\ isReadAlignmentConfident /\ isMateAlignmentConfident
          /\ readAlignmentStats.canonicalAlignmentType = kInsideRepeat
          /\ mateAlignmentStats.canonicalAlignmentType = kInsideRepeat
       THEN [afterMate EXCEPT !.countOfInrepeatReadPairs_ = @ + 1]
       ELSE afterMate

\* the effect of processMates on the analyzer's members
processMatesOn(acc, read, mate) ==
    LET readAlignmentStats == classifyReadAlignment(read)
        mateAlignmentStats == classifyReadAlignment(mate)
        isReadAlignmentConfident == checkIfAlignmentIsConfident(read, readAlignmentStats)
        isMateAlignmentConfident == checkIfAlignmentIsConfident(mate, mateAlignmentStats)
        afterRead ==
            IF isReadAlignmentConfident
            THEN summarizeAlignmentsToReadCounts(
                     [acc EXCEPT !.alignmentStatsCalculator_ = inspect(@, read)], readAlignmentStats)
            ELSE acc
    IN IF isMateAlignmentConfident
       THEN summarizeAlignmentsToReadCounts(
                [afterRead EXCEPT !.alignmentStatsCalculator_ = inspect(@, mate)], mateAlignmentStats)
       ELSE afterRead

\* the caller of processMates counts the pair as an in-repeat read pair when
\* both mate classifications are kInsideRepeat
addInrepeatReadPair(count, readAlignmentStats, mateAlignmentStats) ==
    IF /\ readAlignmentStats.canonicalAlignmentType = kInsideRepeat
       /\ mateAlignmentStats.canonicalAlignmentType = kInsideRepeat
    THEN count + 1
    ELSE count

----------------------------------------------------------------------------
(* Analysis *)

Max(a, b) == IF a >= b THEN a ELSE b

\* *std::max_element of a non-empty vector
MaxElement(sizes) == CHOOSE m \in {sizes[i] : i \in 1..Len(sizes)} :
                        \A i \in 1..Len(sizes) : sizes[i] <= m

\* a generator that appends the longest non-spanning size without comparing
generateCandidateAlleleSizes_AlwaysAppends(spanningTable, flankingTable, inrepeatTable) ==
    LET candidateSizes == getElementsWithNonzeroCounts(spanningTable)
        flankingSizes == getElementsWithNonzeroCounts(flankingTable)
        longestFlanking == IF flankingSizes = <<>> THEN 0 ELSE MaxElement(flankingSizes)
        inrepeatSizes == getElementsWithNonzeroCounts(inrepeatTable)
        longestInrepeat == IF inrepeatSizes = <<>> THEN 0 ELSE MaxElement(inrepeatSizes)
    IN Append(candidateSizes, Max(longestFlanking, longestInrepeat))

\* a generator that leaves the flanking table out
generateCandidateAlleleSizes_IgnoresFlanking(spanningTable, flankingTable, inrepeatTable) ==
    LET candidateSizes == getElementsWithNonzeroCounts(spanningTable)
        longestSpanning == IF candidateSizes = <<>> THEN 0 ELSE MaxElement(candidateSizes)
        inrepeatSizes == getElementsWithNonzeroCounts(inrepeatTable)
        longestInrepeat == IF inrepeatSizes = <<>> THEN 0 ELSE MaxElement(inrepeatSizes)
    IN IF longestSpanning < longestInrepeat
       THEN Append(candidateSizes, longestInrepeat)
       ELSE candidateSizes

generateCandidateAlleleSizes(spanningTable, flankingTable, inrepeatTable) ==
    LET candidateSizes == getElementsWithNonzeroCounts(spanningTable)
        longestSpanning == IF candidateSizes = <<>> THEN 0 ELSE MaxElement(candidateSizes)
        flankingSizes == getElementsWithNonzeroCounts(flankingTable)
        longestFlanking == IF flankingSizes = <<>> THEN 0 ELSE MaxElement(flankingSizes)
        inrepeatSizes == getElementsWithNonzeroCounts(inrepeatTable)
        longestInrepeat == IF inrepeatSizes = <<>> THEN 0 ELSE MaxElement(inrepeatSizes)
        longestNonSpanning == Max(longestFlanking, longestInrepeat)
    IN IF longestSpanning < longestNonSpanning
       THEN Append(candidateSizes, longestNonSpanning)
       ELSE candidateSizes

\* the LocusStats given to analyze: depths just below and at the coverage threshold
LocusStats ==
    [meanReadLength : 0..MaxReadLength,
     depth : (MinLocusCoverage - 1)..MinLocusCoverage,
     alleleCount : AlleleCount]

\* boost::optional
boost_none == [hasValue |-> FALSE]
Some(v) == [hasValue |-> TRUE, value |-> v]

\* a test that leaves the read length out
isLowDepth_IgnoresReadLength(stats, params) ==
    stats.depth < params.minLocusCoverage

\* the test that skips genotyping
isLowDepth(stats, params) ==
    stats.meanReadLength = 0 \/ stats.depth < params.minLocusCoverage

\* a cutoff rounded down
maxNumUnitsInRead_Floor(meanReadLength, repeatUnitLength) ==
    meanReadLength \div repeatUnitLength

\* std::ceil(stats.meanReadLength() / static_cast<double>(repeatUnitLength))
maxNumUnitsInRead(meanReadLength, repeatUnitLength) ==
    (meanReadLength + repeatUnitLength - 1) \div repeatUnitLength

\* a threshold that is the same for one allele and for two
minBreakpointSpanningReads_NotHalved(params, alleleCount) ==
    params.minBreakpointSpanningReads

minBreakpointSpanningReads(params, alleleCount) ==
    IF alleleCount = kTwo
    THEN params.minBreakpointSpanningReads
    ELSE params.minBreakpointSpanningReads \div 2

\* stats.depth() / 2 for two alleles, stats.depth() otherwise, as a fraction
haplotypeDepth(stats) ==
    IF stats.alleleCount = kTwo THEN [num |-> stats.depth, den |-> 2]
    ELSE [num |-> stats.depth, den |-> 1]

\* RepeatGenotyper::genotypeRepeat: no genotype without candidate sizes;
\* otherwise one allele size per allele, taken from the candidates
genotypeRepeat(repeatGenotyper, candidateAlleleSizes) ==
    IF candidateAlleleSizes = <<>> THEN boost_none
    ELSE IF repeatGenotyper.alleleCount = kTwo
    THEN Some(<<candidateAlleleSizes[1], MaxElement(candidateAlleleSizes)>>)
    ELSE Some(<<MaxElement(candidateAlleleSizes)>>)

\* The RepeatFindings analyze(stats) returns from the analyzer's members.
\* stats and genotyperCall record the call's argument and, when the genotyper
\* was invoked, the arguments it was given.
analyzeOn(acc, stats) ==
    IF isLowDepth(stats, acc.genotyperParams_)
    THEN [returned |-> TRUE,
          spanningTable |-> acc.countsOfSpanningReads_,
          flankingTable |-> acc.countsOfFlankingReads_,
          inrepeatTable |-> acc.countsOfInrepeatReads_,
          alleleCount |-> stats.alleleCount,
          genotype |-> boost_none,
          filter |-> {kLowDepth},
          stats |-> stats,
          genotyperCall |-> boost_none]
    ELSE LET repeatUnitLength == RepeatUnitLength
             propCorrectMolecules == <<97, 100>>
             cutoff == maxNumUnitsInRead(stats.meanReadLength, repeatUnitLength)
             spanningTable == collapseTopElements(acc.countsOfSpanningReads_, cutoff)
             flankingTable == collapseTopElements(acc.countsOfFlankingReads_, cutoff)
             inrepeatTable == collapseTopElements(acc.countsOfInrepeatReads_, cutoff)
             candidateAlleleSizes ==
                 generateCandidateAlleleSizes(spanningTable, flankingTable, inrepeatTable)
             minSpanning == minBreakpointSpanningReads(acc.genotyperParams_, stats.alleleCount)
             repeatGenotyper ==
                 [haplotypeDepth |-> haplotypeDepth(stats),
                  alleleCount |-> stats.alleleCount,
                  repeatUnitLength |-> repeatUnitLength,
                  maxNumUnitsInRead |-> cutoff,
                  propCorrectMolecules |-> propCorrectMolecules,
                  spanningTable |-> spanningTable,
                  flankingTable |-> flankingTable,
                  inrepeatTable |-> inrepeatTable,
                  countOfInrepeatReadPairs |-> acc.countOfInrepeatReadPairs_]
             alignmentStats == acc.alignmentStatsCalculator_
         IN [returned |-> TRUE,
             spanningTable |-> spanningTable,
             flankingTable |-> flankingTable,
             inrepeatTable |-> inrepeatTable,
             alleleCount |-> stats.alleleCount,
             genotype |-> genotypeRepeat(repeatGenotyper, candidateAlleleSizes),
             filter |-> IF alignmentStats.right < minSpanning \/ alignmentStats.left < minSpanning
                        THEN {kLowDepth} ELSE {},
             stats |-> stats,
             genotyperCall |-> Some([repeatGenotyper |-> repeatGenotyper,
                                     candidateAlleleSizes |-> candidateAlleleSizes])]

----------------------------------------------------------------------------
(* The analyzer as a state machine *)

\* the analyzer's configuration
GenotyperParameters ==
    [minLocusCoverage |-> MinLocusCoverage,
     minBreakpointSpanningReads |-> MinBreakpointSpanningReads]

NoFindings == [returned |-> FALSE]
NoFunction == [op |-> "none"]

\* a freshly constructed RepeatAnalyzer, and no call made yet
Constructed ==
    /\ analyzer = [countsOfSpanningReads_ |-> EmptyTable,
                   countsOfFlankingReads_ |-> EmptyTable,
                   countsOfInrepeatReads_ |-> EmptyTable,
                   countOfInrepeatReadPairs_ |-> 0,
                   alignmentStatsCalculator_ |-> [left |-> 0, right |-> 0],
                   genotyperParams_ |-> GenotyperParameters]
    /\ findings = NoFindings
    /\ accumulated = analyzer
    /\ pairsProcessed = 0
    /\ confidentSeen = [t \in CountedTypes |-> 0]
    /\ insidePairsSeen = 0

Init ==
    /\ Constructed
    /\ fn = NoFunction

\* history: 1 for a confident alignment of the type, 0 otherwise
ConfidentOfType(alignment, type) ==
    IF alignment.passes /\ alignment.type = type
       /\ (type = kFlanksRepeat => alignment.goodLeft \/ alignment.goodRight)
       /\ (type = kSpansRepeat => alignment.goodLeft /\ alignment.goodRight)
    THEN 1 ELSE 0

\* One read pair is submitted: processMates(read, readAlignment, mate,
\* mateAlignment), and the caller's count of in-repeat read pairs.  All pairs
\* are submitted before analyze() is called.
processMates ==
    /\ fn = NoFunction
    /\ ~findings.returned
    /\ pairsProcessed < MaxPairs
    /\ \E read \in Alignments, mate \in Alignments :
        /\ analyzer' = [processMatesOn(analyzer, read, mate) EXCEPT
                !.countOfInrepeatReadPairs_ =
                    addInrepeatReadPair(@, classifyReadAlignment(read),
                                        classifyReadAlignment(mate))]
        /\ confidentSeen' = [t \in CountedTypes |->
                confidentSeen[t] + ConfidentOfType(read, t) + ConfidentOfType(mate, t)]
        /\ insidePairsSeen' =
                insidePairsSeen
                + (IF read.type = kInsideRepeat /\ mate.type = kInsideRepeat THEN 1 ELSE 0)
    /\ accumulated' = analyzer'
    /\ pairsProcessed' = pairsProcessed + 1
    /\ UNCHANGED <<findings, fn>>

\* an analyze() that collapses the members instead of copies
analyze_CollapsesLiveTables ==
    /\ fn = NoFunction
    /\ \E stats \in LocusStats :
        /\ findings.returned => stats = findings.stats
        /\ findings' = analyzeOn(analyzer, stats)
    /\ analyzer' = [analyzer EXCEPT
            !.countsOfSpanningReads_ = findings'.spanningTable,
            !.countsOfFlankingReads_ = findings'.flankingTable,
            !.countsOfInrepeatReads_ = findings'.inrepeatTable]
    /\ UNCHANGED <<accumulated, pairsProcessed, confidentSeen, insidePairsSeen, fn>>

\* analyze(stats) const.  The locus's statistics are fixed: a repeated call
\* is given the LocusStats of the first.
analyze ==
    /\ fn = NoFunction
    /\ \E stats \in LocusStats :
        /\ findings.returned => stats = findings.stats
        /\ findings' = analyzeOn(analyzer, stats)
    /\ UNCHANGED <<analyzer, accumulated, pairsProcessed, confidentSeen, insidePairsSeen, fn>>

Next ==
    \/ processMates
    \/ analyze

Spec == Init /\ [][Next]_vars

\* the accumulation alone: read pairs are submitted, in any order
SpecAccumulate == Init /\ [][processMates]_vars

----------------------------------------------------------------------------
(* checkIfAlignmentIsConfident as a function of the alignment's attributes *)

InitConfident ==
    /\ Constructed
    /\ fn \in [op : {"confident"}, alignment : AlignmentAttributes,
               done : {FALSE}, isConfident : {FALSE}]

evaluateConfident ==
    /\ fn.op = "confident"
    /\ ~fn.done
    /\ fn' = [fn EXCEPT !.done = TRUE,
                        !.isConfident = checkIfAlignmentIsConfident(
                            fn.alignment, classifyReadAlignment(fn.alignment))]
    /\ UNCHANGED <<analyzer, findings, accumulated, pairsProcessed, confidentSeen,
                   insidePairsSeen>>

SpecConfident == InitConfident /\ [][evaluateConfident]_vars

----------------------------------------------------------------------------
(* generateCandidateAlleleSizes as a function of three tables *)

Tables == [0..MaxSize -> 0..MaxCount]

InitCandidates ==
    /\ Constructed
    /\ fn \in [op : {"candidates"}, spanningTable : Tables, flankingTable : Tables,
               inrepeatTable : Tables, done : {FALSE}, candidateSizes : {<<>>}]

evaluateCandidates ==
    /\ fn.op = "candidates"
    /\ ~fn.done
    /\ fn' = [fn EXCEPT !.done = TRUE,
                        !.candidateSizes = generateCandidateAlleleSizes(
                            fn.spanningTable, fn.flankingTable, fn.inrepeatTable)]
    /\ UNCHANGED <<analyzer, findings, accumulated, pairsProcessed, confidentSeen,
                   insidePairsSeen>>

SpecCandidates == InitCandidates /\ [][evaluateCandidates]_vars

----------------------------------------------------------------------------
(* Properties *)

\* stats sends analyze() down its low-depth branch
LowDepthStats(stats) == stats.meanReadLength = 0 \/ stats.depth < MinLocusCoverage

Genotyped == findings.returned /\ ~LowDepthStats(findings.stats)

\* the least n with n * unit >= length
Ceiling(length, unit) == CHOOSE n \in 0..length : n * unit >= length /\ (n - 1) * unit < length

\* the largest size with a non-zero count, 0 for a table without one
Longest(table) ==
    IF NonzeroElements(table) = {} THEN 0
    ELSE CHOOSE m \in NonzeroElements(table) : \A e \in NonzeroElements(table) : e <= m

Range(sequence) == {sequence[i] : i \in 1..Len(sequence)}

\* C1: when meanReadLength is 0 or the depth is below minLocusCoverage, the
\* findings analyze() returns carry kLowDepth and no genotype, their three
\* tables are the accumulated tables as they are, and the genotyper was not
\* invoked.
C1_LowDepthFindings ==
    findings.returned /\ LowDepthStats(findings.stats) =>
        /\ kLowDepth \in findings.filter
        /\ findings.genotype = boost_none
        /\ findings.spanningTable = accumulated.countsOfSpanningReads_
        /\ findings.flankingTable = accumulated.countsOfFlankingReads_
        /\ findings.inrepeatTable = accumulated.countsOfInrepeatReads_
        /\ findings.genotyperCall = boost_none

\* a zero read length at sufficient depth, and tables that collapsing would
\* have changed are returned as they are
C1_Witness ==
    /\ findings.returned
    /\ findings.stats.meanReadLength = 0
    /\ findings.stats.depth >= MinLocusCoverage
    /\ \E e \in DOMAIN findings.spanningTable : e > 1 /\ findings.spanningTable[e] > 0
    /\ \E e \in DOMAIN findings.flankingTable : e > 1 /\ findings.flankingTable[e] > 0

\* C2: the total count of each table is the number of alignments processed so
\* far that were confident and of the table's type.
C2_TableTotals ==
    /\ totalCount(analyzer.countsOfSpanningReads_) = confidentSeen[kSpansRepeat]
    /\ totalCount(analyzer.countsOfFlankingReads_) = confidentSeen[kFlanksRepeat]
    /\ totalCount(analyzer.countsOfInrepeatReads_) = confidentSeen[kInsideRepeat]

\* every table has been counted into, and some alignment was not counted
C2_Witness ==
    /\ pairsProcessed = MaxPairs
    /\ confidentSeen[kSpansRepeat] = 1
    /\ confidentSeen[kFlanksRepeat] = 1
    /\ confidentSeen[kInsideRepeat] = 1
    /\ totalCount(analyzer.countsOfSpanningReads_) = 1

C4_OrderIndependence ==
    /\ pairsProcessed < MaxPairs =>
        \A read \in Alignments, mate \in Alignments :
            processMatesOn(analyzer, read, mate) = processMatesOn(analyzer, mate, read)
    /\ pairsProcessed = 0 =>
        \A r1 \in Alignments, m1 \in Alignments, r2 \in Alignments, m2 \in Alignments :
            processMatesOn(processMatesOn(analyzer, r1, m1), r2, m2)
                = processMatesOn(processMatesOn(analyzer, r2, m2), r1, m1)

\* the alignments do not all have the same effect, in either order
C4_Witness ==
    /\ pairsProcessed = MaxPairs
    /\ totalCount(analyzer.countsOfSpanningReads_) = 1
    /\ totalCount(analyzer.countsOfFlankingReads_) = 2
    /\ totalCount(analyzer.countsOfInrepeatReads_) = 1
    /\ analyzer.alignmentStatsCalculator_ = [left |-> 3, right |-> 1]

\* C5: analyze() leaves the analyzer's members as the processMates calls left
\* them, in both of its branches, so that calling it again with the same
\* LocusStats returns the same findings.
C5_AnalyzeKeepsMembers ==
    /\ analyzer = accumulated
    /\ findings.returned => analyzeOn(analyzer, findings.stats) = findings

\* analyze() returned collapsed tables and the live ones are not collapsed
C5_Witness ==
    /\ Genotyped
    /\ findings.spanningTable # analyzer.countsOfSpanningReads_
    /\ findings.inrepeatTable # analyzer.countsOfInrepeatReads_
    /\ analyzer.countOfInrepeatReadPairs_ > 0

\* C6: an alignment is confident exactly when it passes the generic filter
\* and, for type kFlanksRepeat, one of its flanks is good; for type
\* kSpansRepeat, both are; for the other types nothing more is asked.
C6_ConfidencePolicy ==
    fn.op = "confident" /\ fn.done =>
        LET a == fn.alignment
        IN fn.isConfident <=>
            /\ a.passes
            /\ CASE a.type = kFlanksRepeat -> a.goodLeft \/ a.goodRight
                 [] a.type = kSpansRepeat -> a.goodLeft /\ a.goodRight
                 [] OTHER -> TRUE

\* a spanning alignment with one good flank only was rejected
C6_Witness ==
    /\ fn.op = "confident"
    /\ fn.done
    /\ fn.alignment.passes
    /\ fn.alignment.type = kSpansRepeat
    /\ fn.alignment.goodLeft
    /\ ~fn.alignment.goodRight
    /\ ~fn.isConfident

\* C7: in the genotyping branch the findings carry kLowDepth exactly when the
\* count of alignments spanning the left or the right breakpoint is below the
\* threshold: the configured one for two alleles, half of it (rounded down)
\* otherwise; the genotype does not matter.
C7_BreakpointFilter ==
    Genotyped =>
        LET threshold == IF findings.stats.alleleCount = kTwo
                         THEN MinBreakpointSpanningReads
                         ELSE MinBreakpointSpanningReads \div 2
            counts == accumulated.alignmentStatsCalculator_
        IN kLowDepth \in findings.filter <=>
                (counts.left < threshold \/ counts.right < threshold)

\* a genotype was returned and flagged: the left breakpoint alone is short of
\* the threshold
C7_Witness ==
    /\ Genotyped
    /\ findings.genotype.hasValue
    /\ kLowDepth \in findings.filter
    /\ findings.stats.alleleCount = kOne
    /\ accumulated.alignmentStatsCalculator_.left < MinBreakpointSpanningReads \div 2
    /\ accumulated.alignmentStatsCalculator_.right >= MinBreakpointSpanningReads \div 2

\* a locus whose confident alignments are all of type kFlanksRepeat
OnlyFlanking ==
    /\ NonzeroElements(accumulated.countsOfSpanningReads_) = {}
    /\ NonzeroElements(accumulated.countsOfInrepeatReads_) = {}
    /\ NonzeroElements(accumulated.countsOfFlankingReads_) # {}

\* C8 as stated: for a locus with flanking alignments only, the candidate
\* allele sizes built in analyze() are not empty, whatever repeat units the
\* alignments carry.
C8_Original ==
    Genotyped /\ OnlyFlanking => findings.genotyperCall.value.candidateAlleleSizes # <<>>

\* C8, amended: for a locus with flanking alignments only, the candidate
\* allele sizes built in analyze() are not empty when some flanking alignment
\* carries at least one repeat unit, and empty when all carry none.
C8_FlankingCandidates ==
    Genotyped /\ OnlyFlanking =>
        (findings.genotyperCall.value.candidateAlleleSizes # <<>>
            <=> \E e \in NonzeroElements(accumulated.countsOfFlankingReads_) : e >= 1)

\* a flanking-only locus got the size of its flanking alignments as candidate
C8_Witness ==
    /\ Genotyped
    /\ OnlyFlanking
    /\ NonzeroElements(accumulated.countsOfFlankingReads_) = {0, 1}
    /\ findings.genotyperCall.value.candidateAlleleSizes = <<1>>

\* C9: generateCandidateAlleleSizes returns the sizes with a non-zero
\* spanning count, and after them the larger of the longest flanking and the
\* longest in-repeat size exactly when it exceeds the longest spanning size.
C9_CandidateSizes ==
    /\ generateCandidateAlleleSizes(5 :> 2, 8 :> 1, EmptyTable) = <<5, 8>>
    /\ generateCandidateAlleleSizes(10 :> 3, 4 :> 1, 6 :> 1) = <<10>>
    /\ fn.op = "candidates" /\ fn.done =>
        LET spanningSizes == NonzeroElements(fn.spanningTable)
            longestSpanning == Longest(fn.spanningTable)
            longestNonSpanning ==
                Max(Longest(fn.flankingTable), Longest(fn.inrepeatTable))
            n == Cardinality(spanningSizes)
        IN IF longestNonSpanning > longestSpanning
           THEN /\ Len(fn.candidateSizes) = n + 1
                /\ Range(SubSeq(fn.candidateSizes, 1, n)) = spanningSizes
                /\ fn.candidateSizes[n + 1] = longestNonSpanning
           ELSE /\ Len(fn.candidateSizes) = n
                /\ Range(fn.candidateSizes) = spanningSizes

\* a size was appended to spanning sizes, and it came from the in-repeat table
C9_Witness ==
    /\ fn.op = "candidates"
    /\ fn.done
    /\ NonzeroElements(fn.spanningTable) = {0, 1}
    /\ Longest(fn.flankingTable) = 1
    /\ Longest(fn.inrepeatTable) = 2
    /\ fn.candidateSizes = <<0, 1, 2>>

\* the returned table is the accumulated one with the counts at and above the
\* cutoff merged into the cutoff
CollapsedAt(returnedTable, accumulatedTable, cutoff) ==
    /\ \A e \in DOMAIN returnedTable : returnedTable[e] # 0 => e <= cutoff
    /\ \A e \in 0..(cutoff - 1) : countOf(returnedTable, e) = countOf(accumulatedTable, e)
    /\ countOf(returnedTable, cutoff) =
            SumOver(accumulatedTable, {e \in DOMAIN accumulatedTable : e >= cutoff})
    /\ totalCount(returnedTable) = totalCount(accumulatedTable)

\* C10: in the genotyping branch each returned table is the accumulated table
\* collapsed at ceil(meanReadLength / repeatUnitLength): nothing above the
\* cutoff, the counts above it merged into it, the counts below it and the
\* total unchanged.
C10_CollapsedTables ==
    Genotyped =>
        LET cutoff == Ceiling(findings.stats.meanReadLength, RepeatUnitLength)
        IN /\ CollapsedAt(findings.spanningTable, accumulated.countsOfSpanningReads_, cutoff)
           /\ CollapsedAt(findings.flankingTable, accumulated.countsOfFlankingReads_, cutoff)
           /\ CollapsedAt(findings.inrepeatTable, accumulated.countsOfInrepeatReads_, cutoff)

\* counts above the cutoff were merged into a cutoff bucket that had its own
C10_Witness ==
    /\ Genotyped
    /\ accumulated.countsOfSpanningReads_ = (1 :> 1) @@ (2 :> 1)
    /\ findings.spanningTable = (1 :> 2)
    /\ accumulated.countsOfFlankingReads_ = (0 :> 1) @@ (2 :> 1)
    /\ findings.flankingTable = (0 :> 1) @@ (1 :> 1)

====
